---- MODULE Spec2Model ----
(***************************************************************************)
(* Model of the transfer processor of app/main.py (process_transaction)   *)
(* over the accounts and transactions tables of app/models.py.            *)
(*                                                                         *)
(* Each worker serves one request at a time.  A step of the model is one  *)
(* interaction of the request's session with the store (a commit, a       *)
(* locking lookup) together with the local computation that follows it.   *)
(* Amounts and balances are drawn from small integers, on which the       *)
(* Float arithmetic of the columns is exact.                               *)
(***************************************************************************)
EXTENDS Integers, Sequences, FiniteSets, TLC

\* ---------------------------------------------------------------- bounds
NumAccounts == 4        \* accounts 1..NumAccounts exist
MaxAmount   == 2        \* requested amounts range over -1..MaxAmount
MaxTx       == 2        \* transfer requests submitted in a behaviour
NumWorkers  == 2        \* requests served concurrently

\* Clock value at which app/models.py was imported (Column default).
ImportTime == 0

AccountIds == 1..NumAccounts
\* ids a request may name: the existing accounts and one missing id
RequestIds == 1..(NumAccounts + 1)
Amounts    == (-1)..MaxAmount
Workers    == 1..NumWorkers

VARIABLES
    accounts,       \* committed accounts.available_cash, by account id
    transactions,   \* committed rows of the transactions table, by id
    locks,          \* row locks: account id -> workers whose session holds it
    pc,             \* worker -> position in process_transaction
    req,            \* worker -> the CreateTransaction being served
    tx,             \* worker -> id of new_transaction (0 when idle)
    src_cash,       \* worker -> source_account.available_cash as loaded
    dst_cash,       \* worker -> destination_account.available_cash as loaded
    requests,       \* transaction id -> the request body as it was submitted
    recorded_at,    \* transaction id -> clock value when its row was committed
    outcome,        \* transaction id -> response sent for that request
    now             \* the clock read by datetime.now()

vars == <<accounts, transactions, locks, pc, req, tx, src_cash, dst_cash,
          requests, recorded_at, outcome, now>>

\* ------------------------------------------------------------ data model
InitialCash(a) == a % 3

NoRequest == [cash_amount |-> 0, source_account_id |-> 0,
              destination_account_id |-> 0]

CreateTransaction(amount, s, d) ==
    [cash_amount |-> amount, source_account_id |-> s,
     destination_account_id |-> d]

\* TransactionModel(**transaction.model_dump(), success=success) once
\* inserted: autoincrement id, registered_time from the column default,
\* executed_time NULL (the empty sequence).
TransactionModelSwapped(id, r, success) ==
    [id |-> id,
     cash_amount |-> r.cash_amount,
     source_account_id |-> r.destination_account_id,
     destination_account_id |-> r.source_account_id,
     success |-> success,
     registered_time |-> ImportTime,
     executed_time |-> << >>]

TransactionModelSameId(id, r, success) ==
    [id |-> 1,
     cash_amount |-> r.cash_amount,
     source_account_id |-> r.source_account_id,
     destination_account_id |-> r.destination_account_id,
     success |-> success,
     registered_time |-> ImportTime,
     executed_time |-> << >>]

TransactionModel(id, r, success) ==
    [id |-> id,
     cash_amount |-> r.cash_amount,
     source_account_id |-> r.source_account_id,
     destination_account_id |-> r.destination_account_id,
     success |-> success,
     registered_time |-> ImportTime,
     executed_time |-> << >>]

Pending == [kind |-> "Pending", status |-> 0, record |-> << >>]

\* raise HTTPException(status, ...)
HTTPException(status, kind) ==
    [kind |-> kind, status |-> status, record |-> << >>]

ReturnedFaulted(row) ==
    [kind |-> "InternalError", status |-> 500, record |-> << >>]

\* return new_transaction
Returned(row) == [kind |-> "Success", status |-> 200, record |-> <<row>>]

\* ------------------------------------------------------------- the store
AccountExists(a) == a \in AccountIds

\* An exclusive row lock is free for w when no other session holds it.
RowLockFree(a, w) == locks[a] \subseteq {w}

\* End of w's unit of work (commit, rollback or close): its locks go.
ReleaseLocks(w) == [a \in AccountIds |-> locks[a] \ {w}]

\* ------------------------------------------------- process_transaction
\* if transaction.cash_amount < 0: raise HTTPException(400, ...)
AmountRejected(amount) == amount < 0

\* source_account_id == destination_account_id
SameAccount(r) == r.source_account_id = r.destination_account_id

ForUpdateOmitted(a, w) == TRUE

ForUpdateWholeTable(a, w) == \A b \in AccountIds : RowLockFree(b, w)

\* .with_for_update() on the lookup: the row is returned once its lock is
\* granted to this session.
ForUpdateGranted(a, w) == RowLockFree(a, w)

SufficientFundsNonNegative(cash, amount) == cash >= 0

SufficientFundsStrict(cash, amount) == cash > amount

\* if source_account.available_cash >= transaction.cash_amount
SufficientFunds(cash, amount) == cash >= amount

DebitTwice(cash, amount) == cash - amount - amount

\* source_account.available_cash -= transaction.cash_amount
Debit(cash, amount) == cash - amount

CreditDropped(cash, amount) == cash

\* destination_account.available_cash += transaction.cash_amount
Credit(cash, amount) == cash + amount

\* Lines 80-81: the balances as the session of w holds them before its
\* commit, the two rows rewritten from the values it loaded.
Written(w) ==
    [accounts EXCEPT
        ![req[w].source_account_id] = Debit(src_cash[w], req[w].cash_amount),
        ![req[w].destination_account_id] = Credit(dst_cash[w], req[w].cash_amount)]

FinalizedUntimed(row, t) == [row EXCEPT !.success = TRUE]

FinalizedUnmarked(row, t) == row

\* new_transaction.success = True; new_transaction.executed_time = datetime.now()
Finalized(row, t) == [row EXCEPT !.success = TRUE, !.executed_time = <<t>>]

RollbackKeepsDebit(w) ==
    [accounts EXCEPT
        ![req[w].source_account_id] = Debit(src_cash[w], req[w].cash_amount)]

\* db.rollback(): what the session of w wrote since its last commit is
\* discarded and the committed balances stand.
Rollback(w) == accounts

FinishLeaking(w, response) ==
    /\ outcome' = [outcome EXCEPT ![tx[w]] = response]
    /\ locks' = locks
    /\ pc' = [pc EXCEPT ![w] = "idle"]
    /\ req' = [req EXCEPT ![w] = NoRequest]
    /\ tx' = [tx EXCEPT ![w] = 0]
    /\ src_cash' = [src_cash EXCEPT ![w] = 0]
    /\ dst_cash' = [dst_cash EXCEPT ![w] = 0]

\* The request of w is over: the response is recorded, the session is
\* closed (get_db's finally) and the worker is free again.
Finish(w, response) ==
    /\ outcome' = [outcome EXCEPT ![tx[w]] = response]
    /\ locks' = ReleaseLocks(w)
    /\ pc' = [pc EXCEPT ![w] = "idle"]
    /\ req' = [req EXCEPT ![w] = NoRequest]
    /\ tx' = [tx EXCEPT ![w] = 0]
    /\ src_cash' = [src_cash EXCEPT ![w] = 0]
    /\ dst_cash' = [dst_cash EXCEPT ![w] = 0]

Init ==
    /\ accounts = [a \in AccountIds |-> InitialCash(a)]
    /\ transactions = << >>
    /\ locks = [a \in AccountIds |-> {}]
    /\ pc = [w \in Workers |-> "idle"]
    /\ req = [w \in Workers |-> NoRequest]
    /\ tx = [w \in Workers |-> 0]
    /\ src_cash = [w \in Workers |-> 0]
    /\ dst_cash = [w \in Workers |-> 0]
    /\ requests = << >>
    /\ recorded_at = << >>
    /\ outcome = << >>
    /\ now = ImportTime

\* Lines 41-47: the intent row is added and committed.
RecordIntent(w, amount, s, d) ==
    /\ pc[w] = "idle"
    /\ Len(transactions) < MaxTx
    /\ LET r  == CreateTransaction(amount, s, d)
           id == Len(transactions) + 1
       IN  /\ transactions' = Append(transactions, TransactionModel(id, r, FALSE))
           /\ requests' = Append(requests, r)
           /\ recorded_at' = Append(recorded_at, now)
           /\ outcome' = Append(outcome, Pending)
           /\ req' = [req EXCEPT ![w] = r]
           /\ tx' = [tx EXCEPT ![w] = id]
    /\ pc' = [pc EXCEPT ![w] = "validate"]
    /\ now' = now + 1
    /\ UNCHANGED <<accounts, locks, src_cash, dst_cash>>

\* Lines 49-56: the two checks on the request itself.
Validate(w) ==
    /\ pc[w] = "validate"
    /\ IF AmountRejected(req[w].cash_amount)
       THEN Finish(w, HTTPException(400, "InvalidAmount"))
       ELSE IF SameAccount(req[w])
       THEN Finish(w, HTTPException(400, "SameAccount"))
       ELSE /\ pc' = [pc EXCEPT ![w] = "lock_source"]
            /\ UNCHANGED <<locks, req, tx, src_cash, dst_cash, outcome>>
    /\ UNCHANGED <<accounts, transactions, requests, recorded_at, now>>

\* Lines 58-66: the source row is looked up FOR UPDATE.
LockSource(w) ==
    /\ pc[w] = "lock_source"
    /\ LET a == req[w].source_account_id
       IN  IF ~AccountExists(a)
           THEN Finish(w, HTTPException(404, "SourceNotFound"))
           ELSE /\ ForUpdateGranted(a, w)
                /\ locks' = [locks EXCEPT ![a] = @ \cup {w}]
                /\ src_cash' = [src_cash EXCEPT ![w] = accounts[a]]
                /\ pc' = [pc EXCEPT ![w] = "lock_destination"]
                /\ UNCHANGED <<req, tx, dst_cash, outcome>>
    /\ UNCHANGED <<accounts, transactions, requests, recorded_at, now>>

\* Lines 68-76: the destination row is looked up FOR UPDATE.
LockDestination(w) ==
    /\ pc[w] = "lock_destination"
    /\ LET a == req[w].destination_account_id
       IN  IF ~AccountExists(a)
           THEN Finish(w, HTTPException(404, "DestinationNotFound"))
           ELSE /\ ForUpdateGranted(a, w)
                /\ locks' = [locks EXCEPT ![a] = @ \cup {w}]
                /\ dst_cash' = [dst_cash EXCEPT ![w] = accounts[a]]
                /\ pc' = [pc EXCEPT ![w] = "check_funds"]
                /\ UNCHANGED <<req, tx, src_cash, outcome>>
    /\ UNCHANGED <<accounts, transactions, requests, recorded_at, now>>

\* Lines 78-86 and 93: funds suffice, the two balances and the row are
\* written in one commit and the refreshed row is returned.
Execute(w) ==
    /\ pc[w] = "check_funds"
    /\ SufficientFunds(src_cash[w], req[w].cash_amount)
    /\ LET row == Finalized(transactions[tx[w]], now)
       IN  /\ accounts' = Written(w)
           /\ transactions' = [transactions EXCEPT ![tx[w]] = row]
           /\ Finish(w, Returned(row))
    /\ now' = now + 1
    /\ UNCHANGED <<requests, recorded_at>>

\* Lines 87-92: the commit raises, the session is rolled back.
CommitFault(w) ==
    /\ pc[w] = "check_funds"
    /\ SufficientFunds(src_cash[w], req[w].cash_amount)
    /\ accounts' = Rollback(w)
    /\ Finish(w, HTTPException(500, "InternalError"))
    /\ UNCHANGED <<transactions, requests, recorded_at, now>>

\* Lines 94-95.
InsufficientFunds(w) ==
    /\ pc[w] = "check_funds"
    /\ ~SufficientFunds(src_cash[w], req[w].cash_amount)
    /\ Finish(w, HTTPException(400, "InsufficientFunds"))
    /\ UNCHANGED <<accounts, transactions, requests, recorded_at, now>>

Next ==
    \/ \E w \in Workers, amount \in Amounts, s \in RequestIds, d \in RequestIds :
          RecordIntent(w, amount, s, d)
    \/ \E w \in Workers : Validate(w)
    \/ \E w \in Workers : LockSource(w)
    \/ \E w \in Workers : LockDestination(w)
    \/ \E w \in Workers : Execute(w)
    \/ \E w \in Workers : CommitFault(w)
    \/ \E w \in Workers : InsufficientFunds(w)

Spec == Init /\ [][Next]_vars

\* ------------------------------------------------------------ properties
RECURSIVE SumCash(_, _)
SumCash(cash, ids) ==
    IF ids = {} THEN 0
    ELSE LET a == CHOOSE x \in ids : TRUE
         IN  cash[a] + SumCash(cash, ids \ {a})

TxIds == 1..Len(transactions)

Finished(t) == outcome[t].kind # "Pending"

Unexecuted(t) ==
    /\ transactions[t].success = FALSE
    /\ transactions[t].executed_time = << >>

SameFields(row, r) ==
    /\ row.cash_amount = r.cash_amount
    /\ row.source_account_id = r.source_account_id
    /\ row.destination_account_id = r.destination_account_id

\* C1 (conservation): in every committed state the sum of available_cash
\* over all accounts equals the sum in the initial state, whatever requests
\* have succeeded, been rejected or faulted and however they interleaved.
C1_Conservation ==
    SumCash(accounts, AccountIds)
        = SumCash([a \in AccountIds |-> InitialCash(a)], AccountIds)

\* Money has moved, and another request has faulted at its commit.
C1_Witness ==
    /\ \E t \in TxIds : /\ outcome[t].kind = "Success"
                        /\ transactions[t].cash_amount > 0
    /\ \E t \in TxIds : outcome[t].kind = "InternalError"

\* C2 (non-negative balances): the initial balances being >= 0, no account
\* has available_cash < 0 in any committed state.
C2_NonNegative == \A a \in AccountIds : accounts[a] >= 0

\* Two requests drew on the same source, whose balance covered only one of
\* them: one executed and emptied the account, the other was refused.
C2_Witness ==
    \E t \in TxIds, u \in TxIds :
        /\ outcome[t].kind = "Success"
        /\ outcome[u].kind = "InsufficientFunds"
        /\ transactions[t].cash_amount > 0
        /\ transactions[t].source_account_id = transactions[u].source_account_id
        /\ accounts[transactions[t].source_account_id] = 0

\* C3 (audit completeness): every submitted request has exactly one row,
\* carrying the amount, source and destination exactly as submitted; while
\* the request is being validated and after any failure the row has
\* success = FALSE and no executed_time; no failure path removes it.
C3_AuditComplete ==
    /\ Len(transactions) = Len(requests)
    /\ \A t \in TxIds :
          /\ transactions[t].id = t
          /\ SameFields(transactions[t], requests[t])
          /\ outcome[t].kind # "Success" => Unexecuted(t)
    /\ \A w \in Workers :
          pc[w] # "idle" => /\ tx[w] \in TxIds
                            /\ requests[tx[w]] = req[w]
                            /\ Unexecuted(tx[w])

\* A request naming a missing account and a request whose commit faulted
\* have both ended.
C3_Witness ==
    \E t \in TxIds, u \in TxIds :
        /\ outcome[t].kind = "InternalError"
        /\ outcome[u].kind \in {"SourceNotFound", "DestinationNotFound"}
        /\ requests[u].source_account_id # requests[u].destination_account_id

\* C4 (invalid amount), as claimed: a request with amount <= 0 ends with
\* InvalidAmount (400) and its row is never executed.
C4_NonPositiveRejected ==
    \A t \in TxIds :
        requests[t].cash_amount <= 0 =>
            /\ Unexecuted(t)
            /\ Finished(t) => /\ outcome[t].kind = "InvalidAmount"
                               /\ outcome[t].status = 400

\* C5_Succeeds(w) is the step by which the request of w succeeds, C5_Effect(w)
\* what C5 claims of that step.
C5_Succeeds(w) ==
    /\ tx[w] # 0
    /\ outcome[tx[w]].kind = "Pending"
    /\ outcome'[tx[w]].kind = "Success"

C5_Effect(w) ==
    LET r == req[w]
        s == r.source_account_id
        d == r.destination_account_id
        returned == outcome'[tx[w]].record[1]
    IN  /\ accounts'[s] = src_cash[w] - r.cash_amount
        /\ accounts'[d] = dst_cash[w] + r.cash_amount
        /\ \A a \in AccountIds \ {s, d} : accounts'[a] = accounts[a]
        /\ outcome'[tx[w]].status = 200
        /\ returned = transactions'[tx[w]]
        /\ returned.id = tx[w]
        /\ returned.success = TRUE
        /\ Len(returned.executed_time) = 1
        /\ SameFields(returned, requests[tx[w]])

\* C5 (effect of a successful transfer): the step by which a request
\* succeeds sets the source balance to the balance read under the lock
\* minus the amount and the destination balance to the one read plus the
\* amount, leaves every other account alone, and returns the row with
\* success = TRUE, executed_time set and the requested amount, source and
\* destination.
C5_SuccessEffect ==
    [][\A w \in Workers : C5_Succeeds(w) => C5_Effect(w)]_vars

\* A transfer of a positive amount has executed and moved the balances of
\* its two accounts away from their initial values.
C5_Witness ==
    \E t \in TxIds :
        /\ outcome[t].kind = "Success"
        /\ transactions[t].cash_amount > 0
        /\ accounts[transactions[t].source_account_id]
             < InitialCash(transactions[t].source_account_id)
        /\ accounts[transactions[t].destination_account_id]
             > InitialCash(transactions[t].destination_account_id)


\* One request run alone on the balances cash; faulted says whether its
\* commit raises.
C6_SerialStep(cash, r, faulted) ==
    LET s == r.source_account_id
        d == r.destination_account_id
        refused(kind) == [cash |-> cash, kind |-> kind]
    IN  IF r.cash_amount < 0 THEN refused("InvalidAmount")
        ELSE IF s = d THEN refused("SameAccount")
        ELSE IF s \notin AccountIds THEN refused("SourceNotFound")
        ELSE IF d \notin AccountIds THEN refused("DestinationNotFound")
        ELSE IF cash[s] < r.cash_amount THEN refused("InsufficientFunds")
        ELSE IF faulted THEN refused("InternalError")
        ELSE [cash |-> [cash EXCEPT ![s] = @ - r.cash_amount,
                                    ![d] = @ + r.cash_amount],
              kind |-> "Success"]

RECURSIVE C6_SerialRun(_, _)
C6_SerialRun(cash, order) ==
    IF order = << >> THEN cash = accounts
    ELSE LET t    == Head(order)
             step == C6_SerialStep(cash, requests[t],
                                   outcome[t].kind = "InternalError")
         IN  /\ step.kind = outcome[t].kind
             /\ C6_SerialRun(step.cash, Tail(order))

C6_Orders ==
    {o \in [TxIds -> TxIds] : \A i \in TxIds, j \in TxIds : o[i] = o[j] => i = j}

C6_Quiescent == \A w \in Workers : pc[w] = "idle"

\* C6 (no lost update): once the submitted requests have all ended, the
\* committed balances and the responses are those of running the requests
\* one after the other in some total order (a request whose commit faulted
\* faults in that run too); and a balance loaded under a lock is still the
\* committed one for as long as the lock is held.
C6_NoLostUpdate ==
    /\ C6_Quiescent =>
          \E o \in C6_Orders :
              C6_SerialRun([a \in AccountIds |-> InitialCash(a)], o)
    /\ \A w \in Workers :
          /\ pc[w] \in {"lock_destination", "check_funds"} =>
                src_cash[w] = accounts[req[w].source_account_id]
          /\ pc[w] = "check_funds" =>
                dst_cash[w] = accounts[req[w].destination_account_id]

\* Two transfers that share an account were both recorded before either
\* committed, and both have executed.
C6_Witness ==
    /\ C6_Quiescent
    /\ Len(transactions) = 2
    /\ \A t \in TxIds :
          /\ outcome[t].kind = "Success"
          /\ transactions[t].cash_amount > 0
          /\ transactions[t].executed_time[1] >= ImportTime + Len(transactions)
    /\ {transactions[1].source_account_id, transactions[1].destination_account_id}
          \cap {transactions[2].source_account_id,
                transactions[2].destination_account_id} # {}

\* w holds the lock on its source and waits for its destination, held by v.
C7_WaitsFor(w, v) ==
    /\ pc[w] = "lock_destination"
    /\ req[w].destination_account_id \in AccountIds
    /\ w \in locks[req[w].source_account_id]
    /\ v \in locks[req[w].destination_account_id]

\* C7 (deadlock freedom), as claimed: no state is reached in which two
\* requests each hold the lock on one account and wait for the lock on the
\* account the other holds.
C7_NoCircularWait ==
    \A w \in Workers, v \in Workers :
        w # v => ~(C7_WaitsFor(w, v) /\ C7_WaitsFor(v, w))

\* C8 (canonical lock order), as claimed: a request that holds the lock on
\* one of its accounts and is acquiring the lock on the other holds the
\* lower account id and is acquiring the higher one.
C8_CanonicalLockOrder ==
    \A w \in Workers :
        (/\ pc[w] = "lock_destination"
         /\ req[w].destination_account_id \in AccountIds
         /\ w \in locks[req[w].source_account_id])
        => req[w].source_account_id < req[w].destination_account_id

\* C9 (funds check).  C9_Decides(w) is the step by which a request at the
\* funds check ends; C9_Refused is the effect claimed for a refusal.
C9_Decides(w) == pc[w] = "check_funds" /\ pc'[w] # "check_funds"

C9_Refused(w, kind, status) ==
    /\ outcome'[tx[w]].kind = kind
    /\ outcome'[tx[w]].status = status
    /\ accounts' = accounts
    /\ transactions' = transactions
    /\ Unexecuted(tx[w])

C9_Executed(w) ==
    /\ outcome'[tx[w]].kind = "Success"
    /\ transactions'[tx[w]].success = TRUE

C10_FirstFailingCheck(r) ==
    IF ~(r.cash_amount > 0) THEN "InvalidAmount"
    ELSE IF r.source_account_id = r.destination_account_id THEN "SameAccount"
    ELSE IF r.source_account_id \notin AccountIds THEN "SourceNotFound"
    ELSE IF r.destination_account_id \notin AccountIds THEN "DestinationNotFound"
    ELSE "FundsCheck"

C10_ErrorPrecedence ==
    \A t \in TxIds :
        Finished(t) =>
            IF C10_FirstFailingCheck(requests[t]) = "FundsCheck"
            THEN outcome[t].kind \in {"InsufficientFunds", "Success", "InternalError"}
            ELSE outcome[t].kind = C10_FirstFailingCheck(requests[t])

\* The step by which the request of w ends in an error.
EndsInError(w) ==
    /\ tx[w] # 0
    /\ outcome[tx[w]].kind = "Pending"
    /\ outcome'[tx[w]].kind \notin {"Pending", "Success"}

C12_AtomicDiscard ==
    [][\A w \in Workers :
          (EndsInError(w) /\ pc[w] = "check_funds"
                          /\ src_cash[w] >= req[w].cash_amount) =>
              /\ w \in locks[req[w].source_account_id]
              /\ w \in locks[req[w].destination_account_id]
              /\ outcome'[tx[w]].kind = "InternalError"
              /\ outcome'[tx[w]].status = 500
              /\ accounts'[req[w].source_account_id]
                    = accounts[req[w].source_account_id]
              /\ accounts'[req[w].destination_account_id]
                    = accounts[req[w].destination_account_id]
              /\ tx[w] \in 1..Len(transactions')
              /\ transactions'[tx[w]] = transactions[tx[w]]
              /\ Unexecuted(tx[w])]_vars

\* The commit of a transfer of a positive amount has faulted; its row is
\* there, unexecuted, and its two accounts hold their initial balances.
C12_Witness ==
    \E t \in TxIds :
        /\ outcome[t].kind = "InternalError"
        /\ outcome[t].status = 500
        /\ requests[t].cash_amount > 0
        /\ Unexecuted(t)
        /\ accounts[requests[t].source_account_id]
              = InitialCash(requests[t].source_account_id)
        /\ accounts[requests[t].destination_account_id]
              = InitialCash(requests[t].destination_account_id)

\* The row is Recorded / Executed.
Recorded(row) == row.success = FALSE /\ row.executed_time = << >>
Executed(row) == row.success = TRUE /\ Len(row.executed_time) = 1

\* C13 (transaction lifecycle): a row is Recorded when it is inserted; the
\* only change ever made to a row takes it from Recorded to Executed and
\* touches nothing but success and executed_time; an Executed row is never
\* changed again; and in every committed state success = TRUE exactly when
\* executed_time is set.
C13_Lifecycle ==
    /\ [](\A t \in TxIds : Recorded(transactions[t]) \/ Executed(transactions[t]))
    /\ [][/\ Len(transactions') >= Len(transactions)
          /\ \A t \in 1..Len(transactions') :
                IF t \in TxIds
                THEN \/ transactions'[t] = transactions[t]
                     \/ /\ Recorded(transactions[t])
                        /\ Executed(transactions'[t])
                        /\ transactions'[t] =
                             [transactions[t] EXCEPT
                                 !.success = TRUE,
                                 !.executed_time = transactions'[t].executed_time]
                ELSE Recorded(transactions'[t])]_vars

\* One row has gone from Recorded to Executed and another, whose request
\* has ended, has stayed Recorded.
C13_Witness ==
    \E t \in TxIds, u \in TxIds :
        /\ Executed(transactions[t])
        /\ Recorded(transactions[u])
        /\ Finished(u)

\* The next step of the request served by w, whichever it is.
StepOf(w) ==
    \/ Validate(w)
    \/ LockSource(w)
    \/ LockDestination(w)
    \/ Execute(w)
    \/ CommitFault(w)
    \/ InsufficientFunds(w)

AccountsOf(r) == {r.source_account_id, r.destination_account_id}

\* No request in flight besides that of w names an account that w's names.
AllOthersDisjoint(w) ==
    \A v \in Workers \ {w} : AccountsOf(req[v]) \cap AccountsOf(req[w]) = {}

\* C14 (no false contention): in every reachable state a request in flight
\* whose accounts are disjoint from those of every other request in flight
\* can take its next step, so it runs to its end whatever the others do or
\* hold: only a request sharing an account can make it wait.
C14_NoFalseContention ==
    \A w \in Workers :
        (pc[w] # "idle" /\ AllOthersDisjoint(w)) => ENABLED StepOf(w)

\* One request holds both its locks and has not committed; another, on two
\* other existing accounts, is at a locking lookup and can go on.
C14_Witness ==
    \E w \in Workers, v \in Workers :
        /\ pc[v] = "check_funds"
        /\ locks[req[v].source_account_id] = {v}
        /\ locks[req[v].destination_account_id] = {v}
        /\ pc[w] \in {"lock_source", "lock_destination"}
        /\ AccountsOf(req[w]) \subseteq AccountIds
        /\ AccountsOf(req[w]) \cap AccountsOf(req[v]) = {}
        /\ ENABLED StepOf(w)

\* Every request submitted so far is the same request.
AllIdentical == \A t \in TxIds : requests[t] = requests[1]

SuccessCount == Cardinality({t \in TxIds : transactions[t].success})

\* C15 (no idempotence): n submissions make n rows with pairwise distinct
\* ids, also when the requests are identical; and when all n are the same
\* request (amount m from s to d) and k of them have executed, s holds
\* k * m less and d k * m more than initially, every execution was covered
\* by the balance left by the ones before it, and one refused for want of
\* funds was refused on a balance that had really fallen below m.
C15_NoIdempotence ==
    /\ Len(transactions) = Len(requests)
    /\ \A t \in TxIds, u \in TxIds :
          t # u => transactions[t].id # transactions[u].id
    /\ (TxIds # {} /\ AllIdentical) =>
          LET r == requests[1]
              s == r.source_account_id
              d == r.destination_account_id
              m == r.cash_amount
              k == SuccessCount
          IN  IF s \in AccountIds /\ d \in AccountIds /\ s # d
              THEN /\ accounts[s] = InitialCash(s) - k * m
                   /\ accounts[d] = InitialCash(d) + k * m
                   /\ \A a \in AccountIds \ {s, d} : accounts[a] = InitialCash(a)
                   /\ k * m <= InitialCash(s)
                   /\ \A t \in TxIds :
                         outcome[t].kind = "InsufficientFunds" => accounts[s] < m
              ELSE k = 0

\* The same transfer of a positive amount was submitted twice and executed
\* twice.
C15_Witness ==
    /\ Len(transactions) = 2
    /\ requests[1] = requests[2]
    /\ requests[1].cash_amount > 0
    /\ SuccessCount = 2
    /\ transactions[1].id # transactions[2].id

\* What the rows 1..n with success = TRUE brought to account a, less what
\* they took from it.
RECURSIVE NetInflow(_, _)
NetInflow(a, n) ==
    IF n = 0 THEN 0
    ELSE LET row == transactions[n]
             in  == IF row.success /\ row.destination_account_id = a
                    THEN row.cash_amount ELSE 0
             out == IF row.success /\ row.source_account_id = a
                    THEN row.cash_amount ELSE 0
         IN  NetInflow(a, n - 1) + in - out

\* C16 (ledger/audit consistency): in every committed state the balance of
\* each account is its initial balance plus the amounts of the rows with
\* success = TRUE that name it as destination minus the amounts of those
\* that name it as source.
C16_LedgerMatchesAudit ==
    \A a \in AccountIds :
        accounts[a] = InitialCash(a) + NetInflow(a, Len(transactions))

\* Two executed transfers of positive amounts meet in one account, the
\* destination of one and the source of the other.
C16_Witness ==
    \E t \in TxIds, u \in TxIds :
        /\ transactions[t].success /\ transactions[u].success
        /\ transactions[t].cash_amount > 0
        /\ transactions[u].cash_amount > 0
        /\ transactions[t].destination_account_id = transactions[u].source_account_id

\* C17 (mutation only under lock): a step that changes a balance is the
\* commit of a request that holds the locks on its source and on its
\* destination, nobody else holding either, that changes no balance but
\* those two and that finalises the request's row in the same step.
C17_MutationUnderLock ==
    [][\A a \in AccountIds :
          accounts'[a] # accounts[a] =>
              \E w \in Workers :
                  /\ pc[w] = "check_funds"
                  /\ a \in AccountsOf(req[w])
                  /\ locks[req[w].source_account_id] = {w}
                  /\ locks[req[w].destination_account_id] = {w}
                  /\ transactions[tx[w]].success = FALSE
                  /\ transactions'[tx[w]].success = TRUE]_vars

\* A transfer of a positive amount has been committed while the other
\* worker's request, naming its source account, was in flight.
C17_Witness ==
    \E t \in TxIds, w \in Workers :
        /\ transactions[t].success
        /\ transactions[t].cash_amount > 0
        /\ pc[w] \in {"lock_source", "lock_destination", "check_funds"}
        /\ tx[w] < t
        /\ transactions[t].source_account_id \in AccountsOf(req[w])

\* C18 (lock release on every exit path): a lock is held only by a request
\* that is in flight past its source lookup; a worker whose request has
\* ended, however it ended, holds no lock.
C18_LocksReleased ==
    \A a \in AccountIds, w \in Workers :
        w \in locks[a] =>
            /\ pc[w] \in {"lock_destination", "check_funds"}
            /\ a \in AccountsOf(req[w])

\* A request ended with DestinationNotFound after taking the lock on its
\* source, and a later request now holds the lock on that account.
C18_Witness ==
    \E t \in TxIds, w \in Workers :
        /\ outcome[t].kind = "DestinationNotFound"
        /\ tx[w] > t
        /\ w \in locks[requests[t].source_account_id]

\* C19 (timestamps), as claimed: the registered_time of each row is the
\* clock value at which the row was persisted, and an executed row has
\* registered_time <= executed_time.
C19_Timestamps ==
    \A t \in TxIds :
        /\ transactions[t].registered_time = recorded_at[t]
        /\ transactions[t].success =>
              transactions[t].registered_time <= transactions[t].executed_time[1]

====
